---- MODULE Spec2Model ----
(***************************************************************************)
(* A model of cpu-temp (src/main.py): the collector                        *)
(* get_cpu_data_structured, the dashboard renderer                         *)
(* display_cpu_temperatures and the driver main.                           *)
(*                                                                         *)
(* Conventions.                                                            *)
(*  - A Python string that the code inspects (a sensor label) is the       *)
(*    sequence of the Unicode code points of its characters.               *)
(*  - A Python value that may be None is a sequence of length 0 (None) or  *)
(*    1 (the value).                                                       *)
(*  - A temperature is an integer number of tenths of a degree Celsius.    *)
(*  - A Python dict is a record; "k in d" is  k \in DOMAIN d.  The dict    *)
(*    of the sensor source also keeps the insertion order of its keys.     *)
(*  - Standard output is a pipe with Python's default block buffering: a   *)
(*    write fills the buffer, a flush hands the buffer to the reader.      *)
(*  - A line written to a stream is a tuple whose first component is a     *)
(*    string naming the line, followed by the values formatted into it.    *)
(***************************************************************************)
EXTENDS Integers, Sequences, FiniteSets, TLC

\* Longest reading list of the 'coretemp' chip in the collector's specification.
MaxLen == 3
\* Longest reading list of the 'coretemp' chip in the driver's specification.
MaxDrvLen == 2
\* Number of dashboard iterations after the first one.
MaxIter == 1
\* arguments on the command line
MaxArgs == 3

None == <<>>
Some(x) == <<x>>

-----------------------------------------------------------------------------
(* Characters and strings.  A character is its Unicode code point; the tables
   are those of the interpreter's Unicode database (14.0). *)

\* The characters with decimal value 0 of every script: the ten digits of a
\* script are consecutive.  \d of a str pattern matches all of them and int()
\* reads all of them.
DigitZeros == {
    48, 1632, 1776, 1984, 2406, 2534, 2662, 2790, 2918, 3046, 3174, 3302,
    3430, 3558, 3664, 3792, 3872, 4160, 4240, 6112, 6160, 6470, 6608, 6784,
    6800, 6992, 7088, 7232, 7248, 42528, 43216, 43264, 43472, 43504, 43600,
    44016, 65296, 66720, 68912, 69734, 69872, 69942, 70096, 70384, 70736,
    70864, 71248, 71360, 71472, 71904, 72016, 72784, 73040, 73120, 92768,
    92864, 93008, 120782, 120792, 120802, 120812, 120822, 123200, 123632,
    125264, 130032}

IsDigit(c) ==
    IF c < 128 THEN 48 <= c /\ c <= 57
    ELSE \E z \in DigitZeros : z <= c /\ c <= z + 9
DigitVal(c) ==
    IF c < 128 THEN c - 48
    ELSE c - (CHOOSE z \in DigitZeros : z <= c /\ c <= z + 9)

\* The characters str.lower() changes into one other character, in groups of
\* four numbers first, last, step, offset: every step-th character from first
\* to last becomes the character offset further.
LowerRanges == <<
    65, 90, 1, 32, 192, 214, 1, 32, 216, 222, 1, 32, 256, 302, 2, 1, 306, 310,
    2, 1, 313, 327, 2, 1, 330, 374, 2, 1, 376, 376, 1, -121, 377, 381, 2, 1,
    385, 385, 1, 210, 386, 388, 2, 1, 390, 390, 1, 206, 391, 391, 1, 1, 393,
    394, 1, 205, 395, 395, 1, 1, 398, 398, 1, 79, 399, 399, 1, 202, 400, 400,
    1, 203, 401, 401, 1, 1, 403, 403, 1, 205, 404, 404, 1, 207, 406, 406, 1,
    211, 407, 407, 1, 209, 408, 408, 1, 1, 412, 412, 1, 211, 413, 413, 1, 213,
    415, 415, 1, 214, 416, 420, 2, 1, 422, 422, 1, 218, 423, 423, 1, 1, 425,
    425, 1, 218, 428, 428, 1, 1, 430, 430, 1, 218, 431, 431, 1, 1, 433, 434,
    1, 217, 435, 437, 2, 1, 439, 439, 1, 219, 440, 440, 1, 1, 444, 444, 1, 1,
    452, 452, 1, 2, 453, 453, 1, 1, 455, 455, 1, 2, 456, 456, 1, 1, 458, 458,
    1, 2, 459, 475, 2, 1, 478, 494, 2, 1, 497, 497, 1, 2, 498, 500, 2, 1, 502,
    502, 1, -97, 503, 503, 1, -56, 504, 542, 2, 1, 544, 544, 1, -130, 546,
    562, 2, 1, 570, 570, 1, 10795, 571, 571, 1, 1, 573, 573, 1, -163, 574,
    574, 1, 10792, 577, 577, 1, 1, 579, 579, 1, -195, 580, 580, 1, 69, 581,
    581, 1, 71, 582, 590, 2, 1, 880, 882, 2, 1, 886, 886, 1, 1, 895, 895, 1,
    116, 902, 902, 1, 38, 904, 906, 1, 37, 908, 908, 1, 64, 910, 911, 1, 63,
    913, 929, 1, 32, 931, 939, 1, 32, 975, 975, 1, 8, 984, 1006, 2, 1, 1012,
    1012, 1, -60, 1015, 1015, 1, 1, 1017, 1017, 1, -7, 1018, 1018, 1, 1, 1021,
    1023, 1, -130, 1024, 1039, 1, 80, 1040, 1071, 1, 32, 1120, 1152, 2, 1,
    1162, 1214, 2, 1, 1216, 1216, 1, 15, 1217, 1229, 2, 1, 1232, 1326, 2, 1,
    1329, 1366, 1, 48, 4256, 4293, 1, 7264, 4295, 4295, 1, 7264, 4301, 4301,
    1, 7264, 5024, 5103, 1, 38864, 5104, 5109, 1, 8, 7312, 7354, 1, -3008,
    7357, 7359, 1, -3008, 7680, 7828, 2, 1, 7838, 7838, 1, -7615, 7840, 7934,
    2, 1, 7944, 7951, 1, -8, 7960, 7965, 1, -8, 7976, 7983, 1, -8, 7992, 7999,
    1, -8, 8008, 8013, 1, -8, 8025, 8031, 2, -8, 8040, 8047, 1, -8, 8072,
    8079, 1, -8, 8088, 8095, 1, -8, 8104, 8111, 1, -8, 8120, 8121, 1, -8,
    8122, 8123, 1, -74, 8124, 8124, 1, -9, 8136, 8139, 1, -86, 8140, 8140, 1,
    -9, 8152, 8153, 1, -8, 8154, 8155, 1, -100, 8168, 8169, 1, -8, 8170, 8171,
    1, -112, 8172, 8172, 1, -7, 8184, 8185, 1, -128, 8186, 8187, 1, -126,
    8188, 8188, 1, -9, 8486, 8486, 1, -7517, 8490, 8490, 1, -8383, 8491, 8491,
    1, -8262, 8498, 8498, 1, 28, 8544, 8559, 1, 16, 8579, 8579, 1, 1, 9398,
    9423, 1, 26, 11264, 11311, 1, 48, 11360, 11360, 1, 1, 11362, 11362, 1,
    -10743, 11363, 11363, 1, -3814, 11364, 11364, 1, -10727, 11367, 11371, 2,
    1, 11373, 11373, 1, -10780, 11374, 11374, 1, -10749, 11375, 11375, 1,
    -10783, 11376, 11376, 1, -10782, 11378, 11378, 1, 1, 11381, 11381, 1, 1,
    11390, 11391, 1, -10815, 11392, 11490, 2, 1, 11499, 11501, 2, 1, 11506,
    11506, 1, 1, 42560, 42604, 2, 1, 42624, 42650, 2, 1, 42786, 42798, 2, 1,
    42802, 42862, 2, 1, 42873, 42875, 2, 1, 42877, 42877, 1, -35332, 42878,
    42886, 2, 1, 42891, 42891, 1, 1, 42893, 42893, 1, -42280, 42896, 42898, 2,
    1, 42902, 42920, 2, 1, 42922, 42922, 1, -42308, 42923, 42923, 1, -42319,
    42924, 42924, 1, -42315, 42925, 42925, 1, -42305, 42926, 42926, 1, -42308,
    42928, 42928, 1, -42258, 42929, 42929, 1, -42282, 42930, 42930, 1, -42261,
    42931, 42931, 1, 928, 42932, 42946, 2, 1, 42948, 42948, 1, -48, 42949,
    42949, 1, -42307, 42950, 42950, 1, -35384, 42951, 42953, 2, 1, 42960,
    42960, 1, 1, 42966, 42968, 2, 1, 42997, 42997, 1, 1, 65313, 65338, 1, 32,
    66560, 66599, 1, 40, 66736, 66771, 1, 40, 66928, 66938, 1, 39, 66940,
    66954, 1, 39, 66956, 66962, 1, 39, 66964, 66965, 1, 39, 68736, 68786, 1,
    64, 71840, 71871, 1, 32, 93760, 93791, 1, 32, 125184, 125217, 1, 34>>

\* Characters that are cased and not case-ignorable, and characters that are
\* case-ignorable, in pairs of numbers first, last: the context of a capital
\* sigma.
CasedRanges == <<
    65, 90, 97, 122, 170, 170, 181, 181, 186, 186, 192, 214, 216, 246, 248,
    442, 444, 447, 452, 659, 661, 687, 880, 883, 886, 887, 891, 893, 895, 895,
    902, 902, 904, 906, 908, 908, 910, 929, 931, 1013, 1015, 1153, 1162, 1327,
    1329, 1366, 1376, 1416, 4256, 4293, 4295, 4295, 4301, 4301, 4304, 4346,
    4349, 4351, 5024, 5109, 5112, 5117, 7296, 7304, 7312, 7354, 7357, 7359,
    7424, 7467, 7531, 7543, 7545, 7578, 7680, 7957, 7960, 7965, 7968, 8005,
    8008, 8013, 8016, 8023, 8025, 8025, 8027, 8027, 8029, 8029, 8031, 8061,
    8064, 8116, 8118, 8124, 8126, 8126, 8130, 8132, 8134, 8140, 8144, 8147,
    8150, 8155, 8160, 8172, 8178, 8180, 8182, 8188, 8450, 8450, 8455, 8455,
    8458, 8467, 8469, 8469, 8473, 8477, 8484, 8484, 8486, 8486, 8488, 8488,
    8490, 8493, 8495, 8500, 8505, 8505, 8508, 8511, 8517, 8521, 8526, 8526,
    8544, 8575, 8579, 8580, 9398, 9449, 11264, 11387, 11390, 11492, 11499,
    11502, 11506, 11507, 11520, 11557, 11559, 11559, 11565, 11565, 42560,
    42605, 42624, 42651, 42786, 42863, 42865, 42887, 42891, 42894, 42896,
    42954, 42960, 42961, 42963, 42963, 42965, 42969, 42997, 42998, 43002,
    43002, 43824, 43866, 43872, 43880, 43888, 43967, 64256, 64262, 64275,
    64279, 65313, 65338, 65345, 65370, 66560, 66639, 66736, 66771, 66776,
    66811, 66928, 66938, 66940, 66954, 66956, 66962, 66964, 66965, 66967,
    66977, 66979, 66993, 66995, 67001, 67003, 67004, 68736, 68786, 68800,
    68850, 71840, 71903, 93760, 93823, 119808, 119892, 119894, 119964, 119966,
    119967, 119970, 119970, 119973, 119974, 119977, 119980, 119982, 119993,
    119995, 119995, 119997, 120003, 120005, 120069, 120071, 120074, 120077,
    120084, 120086, 120092, 120094, 120121, 120123, 120126, 120128, 120132,
    120134, 120134, 120138, 120144, 120146, 120485, 120488, 120512, 120514,
    120538, 120540, 120570, 120572, 120596, 120598, 120628, 120630, 120654,
    120656, 120686, 120688, 120712, 120714, 120744, 120746, 120770, 120772,
    120779, 122624, 122633, 122635, 122654, 125184, 125251, 127280, 127305,
    127312, 127337, 127344, 127369>>
CaseIgnorableRanges == <<
    39, 39, 46, 46, 58, 58, 94, 94, 96, 96, 168, 168, 173, 173, 175, 175, 180,
    180, 183, 184, 688, 879, 884, 885, 890, 890, 900, 901, 903, 903, 1155,
    1161, 1369, 1369, 1375, 1375, 1425, 1469, 1471, 1471, 1473, 1474, 1476,
    1477, 1479, 1479, 1524, 1524, 1536, 1541, 1552, 1562, 1564, 1564, 1600,
    1600, 1611, 1631, 1648, 1648, 1750, 1757, 1759, 1768, 1770, 1773, 1807,
    1807, 1809, 1809, 1840, 1866, 1958, 1968, 2027, 2037, 2042, 2042, 2045,
    2045, 2070, 2093, 2137, 2139, 2184, 2184, 2192, 2193, 2200, 2207, 2249,
    2306, 2362, 2362, 2364, 2364, 2369, 2376, 2381, 2381, 2385, 2391, 2402,
    2403, 2417, 2417, 2433, 2433, 2492, 2492, 2497, 2500, 2509, 2509, 2530,
    2531, 2558, 2558, 2561, 2562, 2620, 2620, 2625, 2626, 2631, 2632, 2635,
    2637, 2641, 2641, 2672, 2673, 2677, 2677, 2689, 2690, 2748, 2748, 2753,
    2757, 2759, 2760, 2765, 2765, 2786, 2787, 2810, 2815, 2817, 2817, 2876,
    2876, 2879, 2879, 2881, 2884, 2893, 2893, 2901, 2902, 2914, 2915, 2946,
    2946, 3008, 3008, 3021, 3021, 3072, 3072, 3076, 3076, 3132, 3132, 3134,
    3136, 3142, 3144, 3146, 3149, 3157, 3158, 3170, 3171, 3201, 3201, 3260,
    3260, 3263, 3263, 3270, 3270, 3276, 3277, 3298, 3299, 3328, 3329, 3387,
    3388, 3393, 3396, 3405, 3405, 3426, 3427, 3457, 3457, 3530, 3530, 3538,
    3540, 3542, 3542, 3633, 3633, 3636, 3642, 3654, 3662, 3761, 3761, 3764,
    3772, 3782, 3782, 3784, 3789, 3864, 3865, 3893, 3893, 3895, 3895, 3897,
    3897, 3953, 3966, 3968, 3972, 3974, 3975, 3981, 3991, 3993, 4028, 4038,
    4038, 4141, 4144, 4146, 4151, 4153, 4154, 4157, 4158, 4184, 4185, 4190,
    4192, 4209, 4212, 4226, 4226, 4229, 4230, 4237, 4237, 4253, 4253, 4348,
    4348, 4957, 4959, 5906, 5908, 5938, 5939, 5970, 5971, 6002, 6003, 6068,
    6069, 6071, 6077, 6086, 6086, 6089, 6099, 6103, 6103, 6109, 6109, 6155,
    6159, 6211, 6211, 6277, 6278, 6313, 6313, 6432, 6434, 6439, 6440, 6450,
    6450, 6457, 6459, 6679, 6680, 6683, 6683, 6742, 6742, 6744, 6750, 6752,
    6752, 6754, 6754, 6757, 6764, 6771, 6780, 6783, 6783, 6823, 6823, 6832,
    6862, 6912, 6915, 6964, 6964, 6966, 6970, 6972, 6972, 6978, 6978, 7019,
    7027, 7040, 7041, 7074, 7077, 7080, 7081, 7083, 7085, 7142, 7142, 7144,
    7145, 7149, 7149, 7151, 7153, 7212, 7219, 7222, 7223, 7288, 7293, 7376,
    7378, 7380, 7392, 7394, 7400, 7405, 7405, 7412, 7412, 7416, 7417, 7468,
    7530, 7544, 7544, 7579, 7679, 8125, 8125, 8127, 8129, 8141, 8143, 8157,
    8159, 8173, 8175, 8189, 8190, 8203, 8207, 8216, 8217, 8228, 8228, 8231,
    8231, 8234, 8238, 8288, 8292, 8294, 8303, 8305, 8305, 8319, 8319, 8336,
    8348, 8400, 8432, 11388, 11389, 11503, 11505, 11631, 11631, 11647, 11647,
    11744, 11775, 11823, 11823, 12293, 12293, 12330, 12333, 12337, 12341,
    12347, 12347, 12441, 12446, 12540, 12542, 40981, 40981, 42232, 42237,
    42508, 42508, 42607, 42610, 42612, 42621, 42623, 42623, 42652, 42655,
    42736, 42737, 42752, 42785, 42864, 42864, 42888, 42890, 42994, 42996,
    43000, 43001, 43010, 43010, 43014, 43014, 43019, 43019, 43045, 43046,
    43052, 43052, 43204, 43205, 43232, 43249, 43263, 43263, 43302, 43309,
    43335, 43345, 43392, 43394, 43443, 43443, 43446, 43449, 43452, 43453,
    43471, 43471, 43493, 43494, 43561, 43566, 43569, 43570, 43573, 43574,
    43587, 43587, 43596, 43596, 43632, 43632, 43644, 43644, 43696, 43696,
    43698, 43700, 43703, 43704, 43710, 43711, 43713, 43713, 43741, 43741,
    43756, 43757, 43763, 43764, 43766, 43766, 43867, 43871, 43881, 43883,
    44005, 44005, 44008, 44008, 44013, 44013, 64286, 64286, 64434, 64450,
    65024, 65039, 65043, 65043, 65056, 65071, 65106, 65106, 65109, 65109,
    65279, 65279, 65287, 65287, 65294, 65294, 65306, 65306, 65342, 65342,
    65344, 65344, 65392, 65392, 65438, 65439, 65507, 65507, 65529, 65531,
    66045, 66045, 66272, 66272, 66422, 66426, 67456, 67461, 67463, 67504,
    67506, 67514, 68097, 68099, 68101, 68102, 68108, 68111, 68152, 68154,
    68159, 68159, 68325, 68326, 68900, 68903, 69291, 69292, 69446, 69456,
    69506, 69509, 69633, 69633, 69688, 69702, 69744, 69744, 69747, 69748,
    69759, 69761, 69811, 69814, 69817, 69818, 69821, 69821, 69826, 69826,
    69837, 69837, 69888, 69890, 69927, 69931, 69933, 69940, 70003, 70003,
    70016, 70017, 70070, 70078, 70089, 70092, 70095, 70095, 70191, 70193,
    70196, 70196, 70198, 70199, 70206, 70206, 70367, 70367, 70371, 70378,
    70400, 70401, 70459, 70460, 70464, 70464, 70502, 70508, 70512, 70516,
    70712, 70719, 70722, 70724, 70726, 70726, 70750, 70750, 70835, 70840,
    70842, 70842, 70847, 70848, 70850, 70851, 71090, 71093, 71100, 71101,
    71103, 71104, 71132, 71133, 71219, 71226, 71229, 71229, 71231, 71232,
    71339, 71339, 71341, 71341, 71344, 71349, 71351, 71351, 71453, 71455,
    71458, 71461, 71463, 71467, 71727, 71735, 71737, 71738, 71995, 71996,
    71998, 71998, 72003, 72003, 72148, 72151, 72154, 72155, 72160, 72160,
    72193, 72202, 72243, 72248, 72251, 72254, 72263, 72263, 72273, 72278,
    72281, 72283, 72330, 72342, 72344, 72345, 72752, 72758, 72760, 72765,
    72767, 72767, 72850, 72871, 72874, 72880, 72882, 72883, 72885, 72886,
    73009, 73014, 73018, 73018, 73020, 73021, 73023, 73029, 73031, 73031,
    73104, 73105, 73109, 73109, 73111, 73111, 73459, 73460, 78896, 78904,
    92912, 92916, 92976, 92982, 92992, 92995, 94031, 94031, 94095, 94111,
    94176, 94177, 94179, 94180, 110576, 110579, 110581, 110587, 110589,
    110590, 113821, 113822, 113824, 113827, 118528, 118573, 118576, 118598,
    119143, 119145, 119155, 119170, 119173, 119179, 119210, 119213, 119362,
    119364, 121344, 121398, 121403, 121452, 121461, 121461, 121476, 121476,
    121499, 121503, 121505, 121519, 122880, 122886, 122888, 122904, 122907,
    122913, 122915, 122916, 122918, 122922, 123184, 123197, 123566, 123566,
    123628, 123631, 125136, 125142, 125252, 125259, 127995, 127999, 917505,
    917505, 917536, 917631, 917760, 917999>>

\* c lies in one of the pairs of rs
InRanges(c, rs) ==
    \E i \in 1..(Len(rs) \div 2) : rs[2 * i - 1] <= c /\ c <= rs[2 * i]

\* The i-th group of LowerRanges, and whether it changes c
LowerRange(i) ==
    [first |-> LowerRanges[4 * i - 3], last   |-> LowerRanges[4 * i - 2],
     step  |-> LowerRanges[4 * i - 1], offset |-> LowerRanges[4 * i]]
Lowers(c, r) == r.first <= c /\ c <= r.last /\ (c - r.first) % r.step = 0

\* c.lower() of a single character: a string of one or two characters
LowerChar(c) ==
    IF c < 128 THEN IF 65 <= c /\ c <= 90 THEN <<c + 32>> ELSE <<c>>
    ELSE IF c = 304 THEN <<105, 775>>
    ELSE LET hits == {i \in 1..(Len(LowerRanges) \div 4) : Lowers(c, LowerRange(i))}
         IN  IF hits = {} THEN <<c>>
             ELSE <<c + LowerRange(CHOOSE i \in hits : TRUE).offset>>

\* A capital sigma at position i of s is lowered to the final sigma when a
\* cased character comes before it and none after it, case-ignorable
\* characters skipped.
FinalSigma(s, i) ==
    /\ s[i] = 931
    /\ \E j \in 1..(i - 1) :
          /\ InRanges(s[j], CasedRanges)
          /\ \A k \in (j + 1)..(i - 1) : InRanges(s[k], CaseIgnorableRanges)
    /\ ~\E j \in (i + 1)..Len(s) :
          /\ InRanges(s[j], CasedRanges)
          /\ \A k \in (i + 1)..(j - 1) : InRanges(s[k], CaseIgnorableRanges)

\* s[i..j].lower(): the halves lowered and joined
RECURSIVE LowerFrom(_, _, _)
LowerFrom(s, i, j) ==
    IF i > j THEN <<>>
    ELSE IF i = j
    THEN (IF FinalSigma(s, i) THEN <<962>> ELSE LowerChar(s[i]))
    ELSE LowerFrom(s, i, (i + j) \div 2) \o LowerFrom(s, (i + j) \div 2 + 1, j)

\* s.lower()
Lower(s) == LowerFrom(s, 1, Len(s))

\* needle in hay
Contains(needle, hay) ==
    \E i \in 1..(Len(hay) - Len(needle) + 1) :
        SubSeq(hay, i, i + Len(needle) - 1) = needle

\* sys.get_int_max_str_digits(): int() of a longer string of digits raises
IntMaxStrDigits == 4300

\* The number a string of digits denotes
RECURSIVE DigitsValue(_)
DigitsValue(s) ==
    IF s = <<>> THEN 0
    ELSE 10 * DigitsValue(SubSeq(s, 1, Len(s) - 1)) + DigitVal(s[Len(s)])

\* int(s) of a string of digits: [raised |-> FALSE, value |-> the number] or
\* [raised |-> TRUE, cause |-> "ValueError"] for more than IntMaxStrDigits
\* digits, leading zeros counted
ParseInt(s) ==
    IF Len(s) > IntMaxStrDigits
    THEN [raised |-> TRUE, cause |-> "ValueError"]
    ELSE [raised |-> FALSE, value |-> DigitsValue(s)]

\* The run of digits of label that begins at b
DigitRun(label, b) ==
    SubSeq(label, b,
           CHOOSE i \in b..Len(label) :
               /\ (i = Len(label) \/ ~IsDigit(label[i + 1]))
               /\ \A j \in b..i : IsDigit(label[j]))

\* re.search(r'(\d+)', label): the leftmost, longest run of digits; None if none
SearchDigits(label) ==
    IF \E i \in 1..Len(label) : IsDigit(label[i])
    THEN Some(DigitRun(label, CHOOSE i \in 1..Len(label) :
                                 /\ IsDigit(label[i])
                                 /\ \A j \in 1..(i - 1) : ~IsDigit(label[j])))
    ELSE None

-----------------------------------------------------------------------------
(* Strings of the program *)

\* "package id"
PackageId == <<112, 97, 99, 107, 97, 103, 101, 32, 105, 100>>
NoDataMsg == "No CPU temperature data found. This script might not support your system's sensor names."
CollectionErrorPrefix == "Error during data collection: "
PriorityKeys == <<"coretemp", "k10temp", "acpitz">>

-----------------------------------------------------------------------------
(* The sensor source: what psutil.sensors_temperatures() can do *)

\* A reading: the object the code reads .label, .current, .high and .critical
\* of.  attrs says which of these reads succeed: "all", "label" (only .label
\* exists, a read of .current raises AttributeError) or "none" (a read of
\* .label raises AttributeError).
Reading(label, current, high, critical, attrs) ==
    [label |-> label, current |-> current, high |-> high,
     critical |-> critical, attrs |-> attrs]

\* 'Package id 0'
R_Package == Reading(<<80, 97, 99, 107, 97, 103, 101, 32, 105, 100, 32, 48>>,
                     450, Some(800), Some(1000), "all")
\* 'Core 0'
R_Core0   == Reading(<<67, 111, 114, 101, 32, 48>>, 723, Some(800), Some(1000), "all")
\* 'Core 1'
R_Core1   == Reading(<<67, 111, 114, 101, 32, 49>>, 819, Some(800), Some(1000), "all")
\* 'S<ARABIC-INDIC DIGIT ONE> c9': two digit runs; the first one, 1 in
\* another script, ties with R_Core1
R_Multi   == Reading(<<83, 1633, 32, 99, 57>>, 600, Some(800), Some(1000), "all")
\* 'Sensor': no digit
R_NoDigit == Reading(<<83, 101, 110, 115, 111, 114>>, 599, Some(800), Some(1000), "all")
\* 'Core 10000': a digit run above the key of a label without digits
R_Big     == Reading(<<67, 111, 114, 101, 32, 49, 48, 48, 48, 48>>,
                     800, Some(800), Some(1000), "all")
\* 'Core 3', below zero; psutil reports high = None, critical = None when the
\* driver has no threshold
R_NoHigh  == Reading(<<67, 111, 114, 101, 32, 51>>, -5, None, None, "all")
\* objects that are not complete readings: 'Core 2' without .current, and an
\* object without .label
R_NoValue == Reading(<<67, 111, 114, 101, 32, 50>>, 0, None, None, "label")
R_NoLabel == Reading(<<>>, 0, None, None, "none")

CoreTempPool == {R_Package, R_Core0, R_Core1, R_Multi, R_NoDigit, R_Big,
                 R_NoHigh, R_NoValue, R_NoLabel}
\* 'Core ' + '0' * 4301: a digit run one longer than int() converts
R_Long    == Reading(<<67, 111, 114, 101, 32>>
                        \o [i \in 1..(IntMaxStrDigits + 1) |-> 48],
                     650, Some(800), Some(1000), "all")
\* 'Tctl'
R_K10     == Reading(<<84, 99, 116, 108>>, 551, Some(700), Some(900), "all")
\* '': acpitz readings have an empty label
R_Acpitz  == Reading(<<>>, 278, Some(1050), Some(1050), "all")

\* All sequences over S of length at most n
SeqsUpTo(S, n) == UNION {[1..k -> S] : k \in 0..n}

\* The dict psutil returns: order is the sequence of its keys in insertion
\* order, items the function from the keys to their reading lists.  Each of
\* the first four arguments is None (key absent) or Some(list); the keys are
\* inserted in the order coretemp, k10temp, acpitz, nvme, or in the reverse of
\* it.
MakeMap(ct, kt, az, other, reversed) ==
    LET arg == [coretemp |-> ct, k10temp |-> kt, acpitz |-> az, nvme |-> other]
        all == IF reversed THEN <<"nvme", "acpitz", "k10temp", "coretemp">>
               ELSE <<"coretemp", "k10temp", "acpitz", "nvme">>
        order == SelectSeq(all, LAMBDA k : arg[k] # None)
    IN  [order |-> order,
         items |-> [k \in {order[i] : i \in 1..Len(order)} |-> arg[k][1]]]

\* The dicts tried: every 'coretemp' list up to length n, alone or beside
\* both lower-priority chips; every 'coretemp' list up to length n that holds
\* the reading with the long digit run beside the package and a core; and
\* every combination of the other keys, in both orders, beside an absent, an
\* empty or a one-reading 'coretemp' list.
Mappings(n) ==
    {MakeMap(Some(l), o, o, None, FALSE) :
        l \in SeqsUpTo(CoreTempPool, n), o \in {None, Some(<<R_Acpitz>>)}}
    \cup
    {MakeMap(Some(l), None, None, None, FALSE) :
        l \in {x \in SeqsUpTo({R_Package, R_Core0, R_Long}, n) :
                  \E i \in 1..Len(x) : x[i] = R_Long}}
    \cup
    {MakeMap(ct, kt, az, other, reversed) :
        ct \in {None, Some(<<>>), Some(<<R_Core0>>)},
        kt \in {None, Some(<<>>), Some(<<R_K10>>)},
        az \in {None, Some(<<>>), Some(<<R_Acpitz>>)},
        other \in {None, Some(<<>>)},
        reversed \in BOOLEAN}

\* What one call of psutil.sensors_temperatures() does: it raises (psutil has
\* no such function on this platform: AttributeError), it returns a value that
\* is no mapping (None: .get and .keys raise AttributeError), or it returns a
\* mapping.
SourceOutcomes(n) ==
    {[kind |-> "raises"], [kind |-> "notmapping"]}
        \cup {[kind |-> "mapping", m |-> m] : m \in Mappings(n)}

-----------------------------------------------------------------------------
(* get_sort_key *)

\* [raised |-> FALSE, key |-> the key] or, when int() raises at line 42,
\* [raised |-> TRUE, cause |-> the exception]
KeyOfInt(n) == IF n.raised THEN n ELSE [raised |-> FALSE, key |-> n.value]
KeyOfMatch(match) ==
    IF match # None THEN KeyOfInt(ParseInt(match[1]))
    ELSE [raised |-> FALSE, key |-> 9999]
get_sort_key(sensor) == KeyOfMatch(SearchDigits(sensor.label))

\* list.sort(key=get_sort_key) of a list whose keys can all be computed:
\* stable, ascending
InsertByKey(sorted, x) ==
    LET p == Cardinality({i \in 1..Len(sorted) :
                             get_sort_key(sorted[i]).key <= get_sort_key(x).key})
    IN  SubSeq(sorted, 1, p) \o <<x>> \o SubSeq(sorted, p + 1, Len(sorted))

RECURSIVE SortByKey(_)
SortByKey(s) ==
    IF s = <<>> THEN <<>>
    ELSE InsertByKey(SortByKey(SubSeq(s, 1, Len(s) - 1)), s[Len(s)])

-----------------------------------------------------------------------------
(* get_cpu_data_structured *)

\* dict.get(key): None when the key is absent
DictGet(m, k) == IF k \in DOMAIN m.items THEN Some(m.items[k]) ELSE None

\* A test for None instead of a test of truth: an empty list passes
TruthyNotNone(v) == v # None

\* Python truth of a value that is None or a list
Truthy(v) == v # None /\ v[1] # <<>>

\* The operands taken in the wrong order
PyOrReversed(a, b) == IF b # None /\ b[1] # <<>> THEN b ELSE a

\* a or b
PyOr(a, b) == IF Truthy(a) THEN a ELSE b

\* list(raw_temps.keys())
KeyList(m) == m.order

IsPackage(sensor) == Contains(PackageId, Lower(sensor.label))

\* the dict of line 50
NewData(ts) == [timestamp |-> ts, overall_cpu_temp |-> None, cores_temp |-> <<>>]

\* the handler of lines 96-98, with raw_temps bound to a mapping or unbound
WithError(data, cause, keys) ==
    [k \in DOMAIN data \cup {"error", "available_sensor_keys"} |->
        CASE k = "error" -> <<CollectionErrorPrefix, cause>>
          [] k = "available_sensor_keys" -> keys
          [] OTHER -> data[k]]

WithNoData(data, keys) ==
    [k \in DOMAIN data \cup {"error", "available_sensor_keys"} |->
        CASE k = "error" -> <<NoDataMsg>>
          [] k = "available_sensor_keys" -> keys
          [] OTHER -> data[k]]

\* lines 70-74: the last "package id" reading, and the others in order
PackageOf(sensors) ==
    LET idx == {i \in 1..Len(sensors) : IsPackage(sensors[i])}
    IN  IF idx = {} THEN None
        ELSE Some(sensors[CHOOSE i \in idx : \A j \in idx : j <= i])

CoreCandidates(sensors) == SelectSeq(sensors, LAMBDA s : ~IsPackage(s))

\* lines 88-94 for the core at position n
CoreEntry(sensor, n) ==
    [label |-> <<"Core ", n>>, original_label |-> sensor.label,
     current |-> sensor.current, high |-> sensor.high,
     critical |-> sensor.critical]

\* lines 67-95 on the selected list; the result is the dict at the end of the
\* try block, or the dict at the point where a read of a reading or the sort
\* raised
\* lines 86-95: the cores in their sorted order, up to the first whose read
\* of .current raises
AppendCores(d1, core_sensors, stop, keys) ==
    IF stop > Len(core_sensors)
    THEN [d1 EXCEPT !.cores_temp =
             [n \in 1..Len(core_sensors) |-> CoreEntry(core_sensors[n], n)]]
    ELSE WithError([d1 EXCEPT !.cores_temp =
                       [n \in 1..(stop - 1) |-> CoreEntry(core_sensors[n], n)]],
                   "AttributeError", keys)
FirstIncomplete(core_sensors) ==
    IF \A i \in 1..Len(core_sensors) : core_sensors[i].attrs = "all"
    THEN Len(core_sensors) + 1
    ELSE CHOOSE i \in 1..Len(core_sensors) :
             /\ core_sensors[i].attrs # "all"
             /\ \A j \in 1..(i - 1) : core_sensors[j].attrs = "all"
StructureCores(d1, core_sensors, keys) ==
    AppendCores(d1, core_sensors, FirstIncomplete(core_sensors), keys)

\* line 84: the sort computes every key before it moves anything
StructureSort(d1, candidates, keys) ==
    IF \E i \in 1..Len(candidates) : get_sort_key(candidates[i]).raised
    THEN WithError(d1, "ValueError", keys)
    ELSE StructureCores(d1, SortByKey(candidates), keys)

\* lines 76-82
StructurePackage(data, package_sensor, candidates, keys) ==
    IF package_sensor = None THEN StructureSort(data, candidates, keys)
    ELSE IF package_sensor[1].attrs # "all"
    THEN WithError(data, "AttributeError", keys)
    ELSE StructureSort([data EXCEPT !.overall_cpu_temp =
                           Some([label |-> "Overall",
                                 current |-> package_sensor[1].current,
                                 high |-> package_sensor[1].high,
                                 critical |-> package_sensor[1].critical])],
                       candidates, keys)

Structure(data, sensors, keys) ==
    IF \E i \in 1..Len(sensors) : sensors[i].attrs = "none"
    THEN WithError(data, "AttributeError", keys)
    ELSE StructurePackage(data, PackageOf(sensors), CoreCandidates(sensors),
                          keys)

\* The whole function.  The result is [raised |-> FALSE, data |-> the dict
\* returned] or [raised |-> TRUE, cause |-> the exception that left it].
get_cpu_data_structured(src, ts) ==
    LET data == NewData(ts)
    IN  CASE src.kind = "raises" ->
               \* line 57 raises; raw_temps is not in locals()
               [raised |-> FALSE, data |-> WithError(data, "AttributeError", <<>>)]
          [] src.kind = "notmapping" ->
               \* line 58 raises; the handler's raw_temps.keys() raises again
               [raised |-> TRUE, cause |-> "AttributeError"]
          [] OTHER ->
               LET raw_temps == src.m
                   all_cpu_sensors ==
                       PyOr(PyOr(DictGet(raw_temps, "coretemp"),
                                 DictGet(raw_temps, "k10temp")),
                            DictGet(raw_temps, "acpitz"))
               IN  IF ~Truthy(all_cpu_sensors)
                   THEN [raised |-> FALSE,
                         data |-> WithNoData(data, KeyList(raw_temps))]
                   ELSE [raised |-> FALSE,
                         data |-> Structure(data, all_cpu_sensors[1],
                                            KeyList(raw_temps))]

-----------------------------------------------------------------------------
(* get_temp_color and the renderers *)

get_temp_color(temperature) ==
    IF temperature < 60 * 10 THEN "ANSI_GREEN"
    ELSE IF temperature < 80 * 10 THEN "ANSI_YELLOW"
    ELSE "ANSI_RED"

\* f"{t:.1f}°C" of a temperature that is not None: the sign, the digits
\* before the point, the digit after it, the unit
Fmt(t) ==
    LET a == IF t < 0 THEN -t ELSE t
    IN  <<IF t < 0 THEN "-" ELSE "", a \div 10, a % 10, "°C">>

\* f"{x:.1f}" raises TypeError when x is None
Formattable(info) == info.high # None /\ info.critical # None

\* LINE_LENGTH of line 152
LINE_LENGTH == (12 + 3 * (7 + 1)) * 2 + 5

\* "-" * n
Rule(n) == <<"-", n>>

\* lines 173-181 and 189-197: one cell of the core table
Cell(info) ==
    <<info.label, get_temp_color(info.current), Fmt(info.current),
      Fmt(info.high[1]), Fmt(info.critical[1])>>

\* lines 141-202: the core table; [out |-> lines written to the buffer of
\* standard output, fault |-> None or Some(the exception raised before the
\* flush)]
DisplayCores(cpu_data) ==
    LET core_sensors_data == cpu_data.cores_temp
        num_cores == Len(core_sensors_data)
        mid_point == (num_cores + 1) \div 2
        col1_cores == SubSeq(core_sensors_data, 1, mid_point)
        col2_cores == SubSeq(core_sensors_data, mid_point + 1, num_cores)
        RowOk(i) == /\ Formattable(col1_cores[i])
                    /\ (i <= Len(col2_cores) => Formattable(col2_cores[i]))
        Row(i) == <<"row", Cell(col1_cores[i]),
                    IF i <= Len(col2_cores) THEN Cell(col2_cores[i]) ELSE <<>>>>
        bad == {i \in 1..mid_point : ~RowOk(i)}
        rows == IF bad = {} THEN mid_point
                ELSE (CHOOSE i \in bad : \A j \in bad : i <= j) - 1
        head == <<<<"--- Individual Cores ---">>, Rule(LINE_LENGTH),
                  <<"col_header">>, Rule(LINE_LENGTH)>>
    IN  IF core_sensors_data = <<>>
        THEN [out |-> <<<<"No individual core temperature data available.">>,
                        Rule(55)>>,
              fault |-> None]
        ELSE IF bad = {}
        THEN [out |-> head \o [i \in 1..rows |-> Row(i)] \o <<Rule(LINE_LENGTH)>>,
              fault |-> None]
        ELSE [out |-> head \o [i \in 1..rows |-> Row(i)],
              fault |-> Some("TypeError")]

\* Lines 108-202 up to the flush: [out |-> lines written to the buffer of
\* standard output, fault |-> None or Some(the exception raised)]
WithCores(head, cores) == [out |-> head \o cores.out, fault |-> cores.fault]
DisplayWrites(cpu_data) ==
    LET title == <<"--- CPU Temperature Monitor ---">>
    IN  IF cpu_data.overall_cpu_temp # None
        THEN LET package_info == cpu_data.overall_cpu_temp[1]
             IN  IF ~Formattable(package_info)
                 THEN [out |-> <<title>>, fault |-> Some("TypeError")]
                 ELSE WithCores(<<title, Rule(55), <<"overall_header">>, Rule(55),
                                  <<"overall_values",
                                    get_temp_color(package_info.current),
                                    Fmt(package_info.current),
                                    Fmt(package_info.high[1]),
                                    Fmt(package_info.critical[1])>>,
                                  Rule(55)>>,
                                DisplayCores(cpu_data))
        ELSE IF "error" \in DOMAIN cpu_data
        THEN [out |-> <<title, <<"error", cpu_data.error>>>>
                      \o (IF "available_sensor_keys" \in DOMAIN cpu_data
                          THEN <<<<"Available sensor keys: ",
                                   cpu_data.available_sensor_keys>>>>
                          ELSE <<>>)
                      \o <<Rule(55)>>,
              fault |-> None]
        ELSE WithCores(<<title,
                         <<"No 'Overall' (Package) temperature data found.">>,
                         Rule(55)>>,
                       DisplayCores(cpu_data))

\* display_cpu_temperatures(cpu_data) with the reader of standard output
\* there (ok) or gone.  Every path that raises no TypeError ends with a flush
\* (lines 134, 146, 202), which raises BrokenPipeError when the reader is
\* gone.  [out |-> lines that reach the reader, pending |-> lines left in the
\* buffer, fault |-> None or Some(the exception raised)]
Flushed(w, ok) ==
    IF w.fault # None
    THEN [out |-> <<>>, pending |-> w.out, fault |-> w.fault]
    ELSE IF ok
    THEN [out |-> w.out, pending |-> <<>>, fault |-> None]
    ELSE [out |-> <<>>, pending |-> w.out, fault |-> Some("BrokenPipeError")]
display_cpu_temperatures(cpu_data, ok) == Flushed(DisplayWrites(cpu_data), ok)

\* lines 245-257: the one-line summary
ShortOutput(cpu_data) ==
    <<"short",
      IF cpu_data.overall_cpu_temp # None
      THEN <<"OV", Fmt(cpu_data.overall_cpu_temp[1].current)>>
      ELSE <<"OV", "N/A">>,
      [i \in 1..Len(cpu_data.cores_temp) |->
          <<"C", cpu_data.cores_temp[i].label[2],
            Fmt(cpu_data.cores_temp[i].current)>>]>>

\* line 237: json.dumps(cpu_data, indent=2)
JsonOutput(cpu_data) == <<"json", cpu_data>>

-----------------------------------------------------------------------------
\* pc: the position in main; argv: the command line after the program name;
\* args: None, or after parse_args() has returned, the flags; stdout_ok: the reader of standard
\* output is there; buf: the lines written to standard output and not flushed;
\* stdout: the lines the reader got (in dashboard mode: since the last clear);
\* stderr: the lines on the error stream; exit_code: the process status;
\* calls: calls of the collector; raw: what the sensor source did in the last
\* call; cpu_data: the snapshot; iter: finished iterations; caught: the fault
\* the loop's handler caught.
VARIABLES pc, argv, args, stdout_ok, buf, stdout, stderr, exit_code, calls,
          raw, cpu_data, iter, caught

vars == <<pc, argv, args, stdout_ok, buf, stdout, stderr, exit_code, calls,
          raw, cpu_data, iter, caught>>

-----------------------------------------------------------------------------
(* The collector on its own: one call on any outcome of the sensor source *)

InitCollector ==
    /\ pc = "call"
    /\ argv = <<>>
    /\ args = None
    /\ stdout_ok = TRUE
    /\ buf = <<>>
    /\ stdout = <<>>
    /\ stderr = <<>>
    /\ exit_code = None
    /\ calls = 0
    /\ raw = None
    /\ cpu_data = None
    /\ iter = 0
    /\ caught = None

CallCollector ==
    /\ pc = "call"
    /\ \E src \in SourceOutcomes(MaxLen) :
          \E r \in {get_cpu_data_structured(src, iter)} :
              /\ raw' = Some(src)
              /\ calls' = calls + 1
              /\ IF r.raised
                 THEN /\ pc' = "raised"
                      /\ caught' = Some(r.cause)
                      /\ cpu_data' = cpu_data
                 ELSE /\ pc' = "returned"
                      /\ caught' = caught
                      /\ cpu_data' = Some(r.data)
    /\ UNCHANGED <<argv, args, stdout_ok, buf, stdout, stderr, exit_code, iter>>

NextCollector == CallCollector

SpecCollector == InitCollector /\ [][NextCollector]_vars

-----------------------------------------------------------------------------
(* Properties of the collector, under SpecCollector *)

ReturnedMapping == pc = "returned" /\ raw[1].kind = "mapping"
HasError(d) == "error" \in DOMAIN d
RecognizedKeys == {PriorityKeys[i] : i \in 1..Len(PriorityKeys)}

\* What an entry of cores_temp keeps of the reading it was made from
Kept(sensor) == <<sensor.label, sensor.current, sensor.high, sensor.critical>>
KeptOfCore(core) == <<core.original_label, core.current, core.high, core.critical>>

\* The value of the first run of digits of a label: None without a digit
DigitKey(label) ==
    IF SearchDigits(label) = None THEN None
    ELSE Some(ParseInt(SearchDigits(label)[1]).value)

\* The reading list of the first key, in priority order, that satisfies Ok
FirstList(m, Ok(_)) ==
    LET idx == {i \in 1..Len(PriorityKeys) : Ok(PriorityKeys[i])}
    IN  IF idx = {} THEN None
        ELSE Some(m[PriorityKeys[CHOOSE i \in idx : \A j \in idx : i <= j]])
FirstPresent(m) == FirstList(m, LAMBDA k : k \in DOMAIN m)
FirstNonEmpty(m) == FirstList(m, LAMBDA k : k \in DOMAIN m /\ m[k] # <<>>)

\* Every reading of the snapshot d was made from a reading of the list l
BuiltFrom(d, l) ==
    /\ \A i \in 1..Len(d.cores_temp) :
          \E j \in 1..Len(l) :
              l[j].attrs = "all" /\ Kept(l[j]) = KeptOfCore(d.cores_temp[i])
    /\ d.overall_cpu_temp # None =>
          \E j \in 1..Len(l) :
              /\ l[j].attrs = "all"
              /\ IsPackage(l[j])
              /\ l[j].current = d.overall_cpu_temp[1].current

\* C3 (as claimed): the collector never raises; when the sensor source gives
\* no mapping, the call returns a snapshot whose error field is
\* "Error during data collection: <cause>".
C3_CollectorNeverRaises ==
    calls > 0 =>
        /\ pc = "returned"
        /\ raw[1].kind # "mapping" =>
              /\ HasError(cpu_data[1])
              /\ cpu_data[1].error[1] = CollectionErrorPrefix

\* Every reading of the list is complete: each of its fields can be read
Complete(l) == \A i \in 1..Len(l) : l[i].attrs = "all"

\* C4 (as claimed): from a selected reading list of complete readings with at
\* most one "package id" entry and N core candidates, the collector returns
\* exactly N cores labelled "Core 1" .. "Core N" in that order, ascending by
\* the first run of digits of original_label, readings of equal key in their
\* input order.
C4_CoresNumberedAndSorted ==
    (/\ ReturnedMapping
     /\ FirstNonEmpty(raw[1].m.items) # None
     /\ Complete(FirstNonEmpty(raw[1].m.items)[1])
     /\ Len(SelectSeq(FirstNonEmpty(raw[1].m.items)[1], IsPackage)) <= 1) =>
        LET cand == CoreCandidates(FirstNonEmpty(raw[1].m.items)[1])
            cores == cpu_data[1].cores_temp
        IN  /\ Len(cores) = Len(cand)
            /\ \A i \in 1..Len(cores) : cores[i].label = <<"Core ", i>>
            /\ \A i, j \in 1..Len(cores) :
                  (/\ i < j
                   /\ DigitKey(cores[i].original_label) # None
                   /\ DigitKey(cores[j].original_label) # None)
                  => DigitKey(cores[i].original_label)[1]
                        <= DigitKey(cores[j].original_label)[1]
            /\ \A k \in {DigitKey(cand[i].label) : i \in 1..Len(cand)} :
                  SelectSeq([i \in 1..Len(cores) |-> KeptOfCore(cores[i])],
                            LAMBDA c : DigitKey(c[1]) = k)
                  = SelectSeq([i \in 1..Len(cand) |-> Kept(cand[i])],
                              LAMBDA c : DigitKey(c[1]) = k)

\* C5 (as claimed): in cores, every core whose original_label has no digit
\* comes after every core whose original_label has a digit.
C5_NoDigitLast ==
    (ReturnedMapping /\ ~HasError(cpu_data[1])) =>
        LET cores == cpu_data[1].cores_temp
        IN  \A i, j \in 1..Len(cores) :
                (/\ DigitKey(cores[i].original_label) = None
                 /\ DigitKey(cores[j].original_label) # None) => j < i

\* C6 (as claimed): a returned snapshot is in exactly one of the three display
\* states, and a snapshot with error carries no overall and no core reading.
C6_ExactlyOneDisplayState ==
    pc = "returned" =>
        LET d == cpu_data[1]
            overall == d.overall_cpu_temp # None
            coresOnly == d.overall_cpu_temp = None /\ d.cores_temp # <<>>
        IN  /\ (overall /\ ~coresOnly /\ ~HasError(d))
               \/ (~overall /\ coresOnly /\ ~HasError(d))
               \/ (~overall /\ ~coresOnly /\ HasError(d))
            /\ HasError(d) => d.overall_cpu_temp = None /\ d.cores_temp = <<>>

\* C8 (as claimed): when the first recognized key present has an empty reading
\* list, the snapshot has overall None, no cores and no error; the "No CPU
\* temperature data found" error comes only when no recognized key is present.
C8_Original ==
    ReturnedMapping =>
        LET m == raw[1].m.items
            d == cpu_data[1]
        IN  /\ (FirstPresent(m) # None /\ FirstPresent(m)[1] = <<>>) =>
                  /\ ~HasError(d)
                  /\ d.overall_cpu_temp = None
                  /\ d.cores_temp = <<>>
            /\ (HasError(d) /\ d.error = <<NoDataMsg>>) =>
                  RecognizedKeys \cap DOMAIN m = {}

\* C8 (amended): a recognized key with an empty reading list counts as absent.
\* The "No CPU temperature data found" error is returned exactly when no
\* recognized key has a non-empty reading list, with the mapping's keys in
\* available_sensor_keys, overall None and no cores; a snapshot without error
\* always has an overall reading or a core.
C8_EmptyListIsNoData ==
    ReturnedMapping =>
        LET m == raw[1].m.items
            d == cpu_data[1]
        IN  /\ (HasError(d) /\ d.error = <<NoDataMsg>>)
                  <=> \A k \in RecognizedKeys : k \notin DOMAIN m \/ m[k] = <<>>
            /\ (HasError(d) /\ d.error = <<NoDataMsg>>) =>
                  /\ d.overall_cpu_temp = None
                  /\ d.cores_temp = <<>>
                  /\ {d.available_sensor_keys[i] :
                         i \in 1..Len(d.available_sensor_keys)} = DOMAIN m
            /\ ~HasError(d) => d.overall_cpu_temp # None \/ d.cores_temp # <<>>

\* C8's case: 'coretemp' is present with an empty list and nothing else is readable
C8_Witness ==
    /\ ReturnedMapping
    /\ "coretemp" \in DOMAIN raw[1].m.items
    /\ raw[1].m.items["coretemp"] = <<>>
    /\ "nvme" \in DOMAIN raw[1].m.items
    /\ HasError(cpu_data[1])
    /\ cpu_data[1].error = <<NoDataMsg>>

\* C9 (as claimed): the snapshot is built from the reading list of the first
\* recognized key present in the mapping, whatever that list is.
C9_Original ==
    (ReturnedMapping /\ FirstPresent(raw[1].m.items) # None) =>
        BuiltFrom(cpu_data[1], FirstPresent(raw[1].m.items)[1])

\* C9 (amended): the snapshot is built from the reading list of the first
\* recognized key, in the order coretemp, k10temp, acpitz, whose list is not
\* empty: no reading of another list appears in overall or cores, and without
\* a fault every core candidate of that list appears.
C9_FirstNonEmptyKeyWins ==
    (ReturnedMapping /\ FirstNonEmpty(raw[1].m.items) # None) =>
        /\ BuiltFrom(cpu_data[1], FirstNonEmpty(raw[1].m.items)[1])
        /\ ~HasError(cpu_data[1]) =>
              /\ Len(cpu_data[1].cores_temp)
                    = Len(CoreCandidates(FirstNonEmpty(raw[1].m.items)[1]))
              /\ (cpu_data[1].overall_cpu_temp # None)
                    <=> (PackageOf(FirstNonEmpty(raw[1].m.items)[1]) # None)

\* C9's case: 'coretemp' is present and empty, and the cores come from 'k10temp'
C9_Witness ==
    /\ ReturnedMapping
    /\ "coretemp" \in DOMAIN raw[1].m.items
    /\ raw[1].m.items["coretemp"] = <<>>
    /\ "k10temp" \in DOMAIN raw[1].m.items
    /\ "acpitz" \in DOMAIN raw[1].m.items
    /\ raw[1].m.items["acpitz"] # <<>>
    /\ ~HasError(cpu_data[1])
    /\ Len(cpu_data[1].cores_temp) = 1
    /\ cpu_data[1].cores_temp[1].original_label = R_K10.label

-----------------------------------------------------------------------------
(* main *)

\* The parser of lines 206-216 and parser.parse_args() of line 217.  An
\* argument is the sequence of its code points ('-' is 45, '=' is 61).
\* The option strings in the order the parser registered them, each with the
\* action it stands for: '-h', '--help', '--json', '--short', '-s'.
option_string_actions ==
    << [option |-> <<45, 104>>, action |-> "help"],
       [option |-> <<45, 45, 104, 101, 108, 112>>, action |-> "help"],
       [option |-> <<45, 45, 106, 115, 111, 110>>, action |-> "json"],
       [option |-> <<45, 45, 115, 104, 111, 114, 116>>, action |-> "short"],
       [option |-> <<45, 115>>, action |-> "short"] >>

IsOptionString(s) ==
    \E k \in 1..Len(option_string_actions) : option_string_actions[k].option = s
ActionOf(s) ==
    option_string_actions[CHOOSE k \in 1..Len(option_string_actions) :
                              option_string_actions[k].option = s].action

\* str.startswith
StartsWith(s, p) == Len(p) <= Len(s) /\ SubSeq(s, 1, Len(p)) = p

\* str.split('=', 1): the place of the first '=', 0 without one
EqualsAt(s) ==
    IF \E i \in 1..Len(s) : s[i] = 61
    THEN CHOOSE i \in 1..Len(s) : s[i] = 61 /\ \A j \in 1..(i - 1) : s[j] # 61
    ELSE 0
BeforeEquals(s, e) == IF e = 0 THEN s ELSE SubSeq(s, 1, e - 1)
AfterEquals(s, e) == IF e = 0 THEN None ELSE Some(SubSeq(s, e + 1, Len(s)))

\* One interpretation of an argument: the action, the option string and the
\* explicit argument that came with it
OptionTuple(action, option, explicit) ==
    [kind |-> "O", action |-> action, option |-> option, explicit |-> explicit]

\* _get_option_tuples for an argument of two '-' and more: the option strings
\* its part before '=' is a prefix of
LongTuples(prefix, explicit, k) ==
    IF StartsWith(option_string_actions[k].option, prefix)
    THEN <<OptionTuple(Some(option_string_actions[k].action),
                       option_string_actions[k].option, explicit)>>
    ELSE <<>>

\* _get_option_tuples for an argument of one '-': the option string its first
\* two characters spell, the rest being the explicit argument, or an option
\* string it is a prefix of
ShortTuples(s, k) ==
    IF option_string_actions[k].option = SubSeq(s, 1, 2)
    THEN <<OptionTuple(Some(option_string_actions[k].action),
                       option_string_actions[k].option,
                       Some(SubSeq(s, 3, Len(s))))>>
    ELSE IF StartsWith(option_string_actions[k].option, s)
    THEN <<OptionTuple(Some(option_string_actions[k].action),
                       option_string_actions[k].option, None)>>
    ELSE <<>>

\* _get_option_tuples(option_string), for a string of two characters or more
\* that starts with '-'
get_option_tuples(s) ==
    IF s[2] = 45
    THEN LongTuples(BeforeEquals(s, EqualsAt(s)), AfterEquals(s, EqualsAt(s)), 1)
         \o LongTuples(BeforeEquals(s, EqualsAt(s)), AfterEquals(s, EqualsAt(s)), 2)
         \o LongTuples(BeforeEquals(s, EqualsAt(s)), AfterEquals(s, EqualsAt(s)), 3)
         \o LongTuples(BeforeEquals(s, EqualsAt(s)), AfterEquals(s, EqualsAt(s)), 4)
         \o LongTuples(BeforeEquals(s, EqualsAt(s)), AfterEquals(s, EqualsAt(s)), 5)
    ELSE ShortTuples(s, 1) \o ShortTuples(s, 2) \o ShortTuples(s, 3)
         \o ShortTuples(s, 4) \o ShortTuples(s, 5)

\* _negative_number_matcher, '^-\d+$|^-\d*\.\d+$' ('$' also matches before a
\* newline that ends the string)
AllDigits(s, a, b) == \A i \in a..b : IsDigit(s[i])
NegativeNumberBody(s, n) ==
    /\ n >= 2
    /\ s[1] = 45
    /\ \/ AllDigits(s, 2, n)
       \/ \E d \in 2..(n - 1) :
             s[d] = 46 /\ AllDigits(s, 2, d - 1) /\ AllDigits(s, d + 1, n)
LooksNegativeNumber(s) ==
    \/ NegativeNumberBody(s, Len(s))
    \/ s[Len(s)] = 10 /\ NegativeNumberBody(s, Len(s) - 1)

Usage == <<"usage: main.py [-h] [--json] [--short]">>
Help == <<"usage: main.py [-h] [--json] [--short]", "Monitor CPU temperatures.",
          "options">>
ConflictMsg == <<"Error: --json and --short arguments are mutually exclusive.">>

\* The messages of parser.error()
OptionNames(tuples) == [k \in 1..Len(tuples) |-> tuples[k].option]
AmbiguousMsg(s, tuples) ==
    <<"main.py: error: ambiguous option: ", s, " could match ",
      OptionNames(tuples)>>
ActionName(action) ==
    CASE action = "help" -> "-h/--help"
      [] action = "json" -> "--json"
      [] action = "short" -> "--short/-s"
IgnoredMsg(action, explicit) ==
    <<"main.py: error: argument ", ActionName(action),
      ": ignored explicit argument ", explicit>>
UnrecognizedMsg(extras) == <<"main.py: error: unrecognized arguments: ", extras>>

\* The end of _parse_optional, from the interpretations of the argument
OptionalFromTuples(s, tuples) ==
    IF Len(tuples) > 1 THEN [kind |-> "error", msg |-> AmbiguousMsg(s, tuples)]
    ELSE IF Len(tuples) = 1 THEN tuples[1]
    ELSE IF LooksNegativeNumber(s) \/ (\E i \in 1..Len(s) : s[i] = 32)
    THEN [kind |-> "A"]
    ELSE OptionTuple(None, s, None)

\* _parse_optional(arg_string): a positional ("A"), an option ("O", without an
\* action when the parser has no such option) or the error of an ambiguous
\* prefix
parse_optional(s) ==
    IF s = <<>> THEN [kind |-> "A"]
    ELSE IF s[1] # 45 THEN [kind |-> "A"]
    ELSE IF IsOptionString(s) THEN OptionTuple(Some(ActionOf(s)), s, None)
    ELSE IF Len(s) = 1 THEN [kind |-> "A"]
    ELSE IF EqualsAt(s) > 0 /\ IsOptionString(BeforeEquals(s, EqualsAt(s)))
    THEN OptionTuple(Some(ActionOf(BeforeEquals(s, EqualsAt(s)))),
                     BeforeEquals(s, EqualsAt(s)), AfterEquals(s, EqualsAt(s)))
    ELSE OptionalFromTuples(s, get_option_tuples(s))

\* The loop of consume_optional for one argument.  No option takes a value:
\* after a one-letter option the explicit argument is read as further
\* one-letter options, after a long option it is an error.  The actions are
\* taken when the loop is over.
RECURSIVE consume_optional(_, _, _, _)
consume_optional(action, option, explicit, action_tuples) ==
    IF explicit = None
    THEN [raised |-> FALSE, actions |-> Append(action_tuples, action)]
    ELSE IF option[2] # 45 /\ explicit[1] # <<>>
                /\ IsOptionString(<<option[1], explicit[1][1]>>)
    THEN consume_optional(ActionOf(<<option[1], explicit[1][1]>>),
                          <<option[1], explicit[1][1]>>,
                          IF Len(explicit[1]) = 1 THEN None
                          ELSE Some(Tail(explicit[1])),
                          Append(action_tuples, action))
    ELSE [raised |-> TRUE, msg |-> IgnoredMsg(action, explicit[1])]

\* The place of the first '--' of the arguments, one past the end without one:
\* the arguments from there on are no options
Separator(arg_strings) ==
    IF \E i \in 1..Len(arg_strings) : arg_strings[i] = <<45, 45>>
    THEN CHOOSE i \in 1..Len(arg_strings) :
            /\ arg_strings[i] = <<45, 45>>
            /\ \A j \in 1..(i - 1) : arg_strings[j] # <<45, 45>>
    ELSE Len(arg_strings) + 1

HasAction(actions, a) == \E k \in 1..Len(actions) : actions[k] = a

\* The loop of _parse_known_args from the argument at i on, and the end of
\* parse_args(): the arguments are consumed from left to right; a help action
\* prints the help and ends the process where it is taken, an error ends it
\* where it is raised, and the arguments left over are reported at the end.
RECURSIVE consume(_, _, _, _, _)
TakeActions(arg_strings, sep, i, namespace, extras, c) ==
    IF c.raised THEN [kind |-> "error", msg |-> c.msg]
    ELSE IF HasAction(c.actions, "help") THEN [kind |-> "help"]
    ELSE consume(arg_strings, sep, i + 1,
                 [json |-> namespace.json \/ HasAction(c.actions, "json"),
                  short |-> namespace.short \/ HasAction(c.actions, "short")],
                 extras)
ConsumeArg(arg_strings, sep, i, namespace, extras, t) ==
    IF t.kind = "A"
    THEN consume(arg_strings, sep, i + 1, namespace, Append(extras, arg_strings[i]))
    ELSE IF t.action = None
    THEN consume(arg_strings, sep, i + 1, namespace, Append(extras, arg_strings[i]))
    ELSE TakeActions(arg_strings, sep, i, namespace, extras,
                     consume_optional(t.action[1], t.option, t.explicit, <<>>))
consume(arg_strings, sep, i, namespace, extras) ==
    IF i > Len(arg_strings)
    THEN IF extras = <<>> THEN [kind |-> "ok", namespace |-> namespace]
         ELSE [kind |-> "error", msg |-> UnrecognizedMsg(extras)]
    ELSE IF i >= sep
    THEN consume(arg_strings, sep, i + 1, namespace, Append(extras, arg_strings[i]))
    ELSE ConsumeArg(arg_strings, sep, i, namespace, extras,
                    parse_optional(arg_strings[i]))

\* The first pass of _parse_known_args: every argument before '--' is
\* classified, and an ambiguous one ends the process at once
Ambiguous(arg_strings, sep) ==
    {i \in 1..(sep - 1) : parse_optional(arg_strings[i]).kind = "error"}
ParseKnownArgs(arg_strings, sep, amb) ==
    IF amb # {}
    THEN [kind |-> "error",
          msg |-> parse_optional(
                      arg_strings[CHOOSE i \in amb : \A j \in amb : i <= j]).msg]
    ELSE consume(arg_strings, sep, 1, [json |-> FALSE, short |-> FALSE], <<>>)

\* parser.parse_args(): the namespace ("ok"), or the process ended by the help
\* ("help": help on standard output, code 0) or by parser.error() ("error":
\* usage and msg on the error stream, code 2)
parse_args(arg_strings) ==
    ParseKnownArgs(arg_strings, Separator(arg_strings),
                   Ambiguous(arg_strings, Separator(arg_strings)))

\* The arguments tried: '--json', '--short', '--help', '--bogus', '--', '-ss',
\* '-sh', '--json=1'
ArgPool ==
    { <<45, 45, 106, 115, 111, 110>>,
      <<45, 45, 115, 104, 111, 114, 116>>,
      <<45, 45, 104, 101, 108, 112>>,
      <<45, 45, 98, 111, 103, 117, 115>>,
      <<45, 45>>,
      <<45, 115, 115>>,
      <<45, 115, 104>>,
      <<45, 45, 106, 115, 111, 110, 61, 49>> }

Init ==
    /\ pc = "parse"
    /\ argv \in SeqsUpTo(ArgPool, MaxArgs)
    /\ args = None
    /\ stdout_ok = TRUE
    /\ buf = <<>>
    /\ stdout = <<>>
    /\ stderr = <<>>
    /\ exit_code = None
    /\ calls = 0
    /\ raw = None
    /\ cpu_data = None
    /\ iter = 0
    /\ caught = None

\* What the reader shows of the lines it got: those after the last clear
AfterClear(lines) ==
    LET idx == {i \in 1..Len(lines) : lines[i] = <<"clear">>}
    IN  IF idx = {} THEN lines
        ELSE SubSeq(lines, (CHOOSE i \in idx : \A j \in idx : j <= i) + 1,
                    Len(lines))

\* The end of the process, after the lines `err` went to the error stream and
\* with `pending` in the buffer of standard output.  The interpreter flushes
\* the buffer at shutdown; when that flush fails it reports the exception on
\* the error stream, and the status is `failed` instead of `code`.
Shutdown(code, failed, err, pending) ==
    /\ pc' = "exited"
    /\ IF pending = <<>> \/ stdout_ok
       THEN /\ stdout' = AfterClear(stdout \o pending)
            /\ buf' = <<>>
            /\ stderr' = stderr \o err
            /\ exit_code' = Some(code)
       ELSE /\ stdout' = stdout
            /\ buf' = pending
            /\ stderr' = stderr \o err
                  \o <<<<"Exception ignored in: <stdout>", "BrokenPipeError">>>>
            /\ exit_code' = Some(failed)

\* The end of the process with the status `code`: 120 when the flush at
\* shutdown fails
Terminate(code, err, pending) == Shutdown(code, 120, err, pending)

\* sys.exit(code)
Exit(code, err, pending) == Terminate(code, err, pending)

\* an exception that leaves main: traceback, status 1
Uncaught(cause, pending) == Terminate(1, <<<<"Traceback", cause>>>>, pending)

\* KeyboardInterrupt leaves main: traceback, shutdown, and the interpreter
\* kills itself with SIGINT whatever the flush did (status 130 to a shell)
Interrupted(err, pending) ==
    Shutdown(130, 130, err \o <<<<"Traceback", "KeyboardInterrupt">>>>, pending)

\* The reader of standard output goes away: every later flush raises.
StdoutCloses ==
    /\ pc # "exited"
    /\ stdout_ok
    /\ stdout_ok' = FALSE
    /\ UNCHANGED <<pc, argv, args, buf, stdout, stderr, exit_code, calls, raw,
                   cpu_data, iter, caught>>

\* The flags without the test for a conflict
ParseArgsNoConflict ==
    /\ pc = "parse"
    /\ \E r \in {parse_args(argv)} :
          IF r.kind = "help"
          THEN Exit(0, <<>>, Append(buf, Help)) /\ UNCHANGED args
          ELSE IF r.kind = "error"
          THEN Exit(2, <<Usage, r.msg>>, buf) /\ UNCHANGED args
          ELSE /\ args' = Some(r.namespace)
               /\ pc' = IF r.namespace.json \/ r.namespace.short
                        THEN "once" ELSE "clear"
               /\ UNCHANGED <<buf, stdout, stderr, exit_code>>
    /\ UNCHANGED <<argv, stdout_ok, calls, raw, cpu_data, iter, caught>>

\* lines 217-225 and 260: parse_args() returns the flags or ends the process;
\* the flags decide the mode
ParseArgs ==
    /\ pc = "parse"
    /\ \E r \in {parse_args(argv)} :
          IF r.kind = "help"
          THEN Exit(0, <<>>, Append(buf, Help)) /\ UNCHANGED args
          ELSE IF r.kind = "error"
          THEN Exit(2, <<Usage, r.msg>>, buf) /\ UNCHANGED args
          ELSE /\ args' = Some(r.namespace)
               /\ IF r.namespace.json /\ r.namespace.short
                  THEN Exit(1, <<ConflictMsg>>, buf)
                  ELSE /\ pc' = IF r.namespace.json \/ r.namespace.short
                                THEN "once" ELSE "clear"
                       /\ UNCHANGED <<buf, stdout, stderr, exit_code>>
    /\ UNCHANGED <<argv, stdout_ok, calls, raw, cpu_data, iter, caught>>

\* line 227
CollectOnce ==
    /\ pc = "once"
    /\ \E src \in SourceOutcomes(MaxDrvLen) :
          \E r \in {get_cpu_data_structured(src, iter)} :
              /\ raw' = Some(src)
              /\ calls' = calls + 1
              /\ IF r.raised
                 THEN /\ Uncaught(r.cause, buf)
                      /\ UNCHANGED cpu_data
                 ELSE /\ pc' = "report"
                      /\ cpu_data' = Some(r.data)
                      /\ UNCHANGED <<buf, stdout, stderr, exit_code>>
    /\ UNCHANGED <<argv, args, stdout_ok, iter, caught>>

\* lines 230-232: the lines for an error snapshot
ErrorLines(d) ==
    <<<<"Error fetching CPU data: ", d.error>>>>
        \o (IF "available_sensor_keys" \in DOMAIN d
            THEN <<<<"Available sensor keys: ", d.available_sensor_keys>>>>
            ELSE <<>>)

\* The renderers without the test for an error snapshot
ReportIgnoringError ==
    /\ pc = "report"
    /\ Exit(0, <<>>, Append(buf, IF args[1].json THEN JsonOutput(cpu_data[1])
                                 ELSE ShortOutput(cpu_data[1])))
    /\ UNCHANGED <<argv, args, stdout_ok, calls, raw, cpu_data, iter, caught>>

\* lines 229-259
Report ==
    /\ pc = "report"
    /\ LET d == cpu_data[1]
       IN  IF "error" \in DOMAIN d
           THEN Exit(1, ErrorLines(d), buf)
           ELSE IF args[1].json
           THEN \* lines 236-243: the write and the flush are inside a try
                IF stdout_ok
                THEN Exit(0, <<>>, Append(buf, JsonOutput(d)))
                ELSE Exit(1, <<<<"Error generating JSON output: ",
                                 "BrokenPipeError">>>>,
                          Append(buf, JsonOutput(d)))
           ELSE \* lines 245-259: the flush of line 258 is not guarded
                IF stdout_ok
                THEN Exit(0, <<>>, Append(buf, ShortOutput(d)))
                ELSE Uncaught("BrokenPipeError", Append(buf, ShortOutput(d)))
    /\ UNCHANGED <<argv, args, stdout_ok, calls, raw, cpu_data, iter, caught>>

\* line 263: clear_console(), outside the try block: the escape sequence is
\* written and flushed; it erases what the reader shows
ClearConsole ==
    /\ pc = "clear"
    /\ IF stdout_ok
       THEN /\ stdout' = AfterClear(stdout \o Append(buf, <<"clear">>))
            /\ buf' = <<>>
            /\ pc' = "collect"
            /\ UNCHANGED <<stderr, exit_code>>
       ELSE Uncaught("BrokenPipeError", Append(buf, <<"clear">>))
    /\ UNCHANGED <<argv, args, stdout_ok, calls, raw, cpu_data, iter, caught>>

\* line 265, inside the try block
DashCollect ==
    /\ pc = "collect"
    /\ \E src \in SourceOutcomes(MaxDrvLen) :
          \E r \in {get_cpu_data_structured(src, iter)} :
              /\ raw' = Some(src)
              /\ calls' = calls + 1
              /\ IF r.raised
                 THEN /\ pc' = "except"
                      /\ caught' = Some(r.cause)
                      /\ UNCHANGED cpu_data
                 ELSE /\ pc' = "display"
                      /\ cpu_data' = Some(r.data)
                      /\ UNCHANGED caught
    /\ UNCHANGED <<argv, args, stdout_ok, buf, stdout, stderr, exit_code, iter>>

\* line 266, inside the try block
DashDisplay ==
    /\ pc = "display"
    /\ \E r \in {display_cpu_temperatures(cpu_data[1], stdout_ok)} :
           IF r.fault # None
           THEN /\ pc' = "except"
                /\ caught' = r.fault
                /\ buf' = buf \o r.pending
                /\ UNCHANGED stdout
           ELSE /\ pc' = "sleep"
                /\ stdout' = stdout \o buf \o r.out
                /\ buf' = <<>>
                /\ UNCHANGED caught
    /\ UNCHANGED <<argv, args, stdout_ok, stderr, exit_code, calls, raw,
                   cpu_data, iter>>

\* lines 267-269: the handler writes the fault and flushes; neither is guarded
Except ==
    /\ pc = "except"
    /\ LET written == Append(buf, <<"An error occurred: ", caught[1]>>)
       IN  IF stdout_ok
           THEN /\ stdout' = stdout \o written
                /\ buf' = <<>>
                /\ pc' = "sleep"
                /\ UNCHANGED <<stderr, exit_code>>
           ELSE Uncaught("BrokenPipeError", written)
    /\ UNCHANGED <<argv, args, stdout_ok, calls, raw, cpu_data, iter, caught>>

\* line 270, and the next turn of the loop.  The snapshot and the fault of the
\* finished iteration are dead: lines 265 and 267 rebind them before any read.
Sleep ==
    /\ pc = "sleep"
    /\ iter < MaxIter
    /\ iter' = iter + 1
    /\ pc' = "clear"
    /\ raw' = None
    /\ cpu_data' = None
    /\ caught' = None
    /\ UNCHANGED <<argv, args, stdout_ok, buf, stdout, stderr, exit_code, calls>>

\* What lines 217-222 write: the help, the error of the parser, or the message
\* of the conflict
ParseWrites(r) ==
    IF r.kind = "help" THEN [w |-> <<Help>>, err |-> <<>>]
    ELSE IF r.kind = "error" THEN [w |-> <<>>, err |-> <<Usage, r.msg>>]
    ELSE IF r.namespace.json /\ r.namespace.short
    THEN [w |-> <<>>, err |-> <<ConflictMsg>>]
    ELSE [w |-> <<>>, err |-> <<>>]

\* What the step at pc writes before it is over: w to the buffer of standard
\* output, then err to the error stream
StepWrites ==
    CASE pc = "parse" -> ParseWrites(parse_args(argv))
      [] pc = "report" ->
           IF "error" \in DOMAIN cpu_data[1]
           THEN [w |-> <<>>, err |-> ErrorLines(cpu_data[1])]
           ELSE IF args[1].json
           THEN [w |-> <<JsonOutput(cpu_data[1])>>,
                 err |-> IF stdout_ok THEN <<>>
                         ELSE <<<<"Error generating JSON output: ",
                                  "BrokenPipeError">>>>]
           ELSE [w |-> <<ShortOutput(cpu_data[1])>>, err |-> <<>>]
      [] pc = "clear" -> [w |-> <<<<"clear">>>>, err |-> <<>>]
      [] pc = "display" -> [w |-> DisplayWrites(cpu_data[1]).out, err |-> <<>>]
      [] pc = "except" ->
           [w |-> <<<<"An error occurred: ", caught[1]>>>>, err |-> <<>>]
      [] OTHER -> [w |-> <<>>, err |-> <<>>]

\* SIGINT: KeyboardInterrupt is raised where main stands, between two steps or
\* within one, after any part of the step's writes, or within the call of the
\* collector.  It is no Exception: neither the collector's handler nor the
\* handler of line 267 catches it, and it leaves main.
Interrupt ==
    /\ pc # "exited"
    /\ \E s \in {StepWrites} :
          \E i \in 0..Len(s.w), j \in 0..Len(s.err) :
              /\ j > 0 => i = Len(s.w)
              /\ Interrupted(SubSeq(s.err, 1, j), buf \o SubSeq(s.w, 1, i))
    /\ \E started \in BOOLEAN :
          /\ started => pc \in {"once", "collect"}
          /\ calls' = IF started THEN calls + 1 ELSE calls
    /\ UNCHANGED <<argv, args, stdout_ok, raw, cpu_data, iter, caught>>

Next ==
    \/ ParseArgs
    \/ CollectOnce
    \/ Report
    \/ ClearConsole
    \/ DashCollect
    \/ DashDisplay
    \/ Except
    \/ Sleep
    \/ Interrupt
    \/ StdoutCloses

Spec == Init /\ [][Next]_vars

-----------------------------------------------------------------------------
(* Properties of the driver, under Spec *)

TerminalMode == args # None /\ args[1].json # args[1].short
DashboardMode == args # None /\ ~args[1].json /\ ~args[1].short
Tags(stream) == {stream[i][1] : i \in 1..Len(stream)}
\* The run was ended from outside, by SIGINT
KilledBySigint == pc = "exited" /\ exit_code = Some(130)

\* C1: in a terminal-mode run, once the collector has returned a snapshot with
\* error set, the renderer is never called and nothing is ever written to
\* standard output, and the process, unless killed from outside before, ends
\* with code 1 after the error went to the error stream.
C1_ErrorSnapshotExitsOne ==
    (TerminalMode /\ cpu_data # None /\ HasError(cpu_data[1])) =>
        /\ stdout = <<>>
        /\ buf = <<>>
        /\ calls = 1
        /\ pc \in {"report", "exited"}
        /\ (pc = "exited" /\ ~KilledBySigint) =>
              /\ exit_code = Some(1)
              /\ "Error fetching CPU data: " \in Tags(stderr)

\* C1's case: a terminal-mode run has ended on an error snapshot
C1_Witness ==
    /\ TerminalMode
    /\ pc = "exited"
    /\ exit_code = Some(1)
    /\ cpu_data # None
    /\ HasError(cpu_data[1])
    /\ stdout_ok

\* C2: in dashboard mode no fault of a step of an iteration (clearing the
\* display, collecting, rendering, printing the fault message) ends the
\* process: the loop ends only by external interruption.
C2_DashboardEndsOnlyByInterruption ==
    (DashboardMode /\ pc = "exited") => exit_code = Some(130)

\* The flags an argument gives: the actions parse_args() takes for it
FlagsOfTuple(t) ==
    IF t.kind = "O" /\ t.action # None
    THEN LET c == consume_optional(t.action[1], t.option, t.explicit, <<>>)
         IN  IF c.raised THEN {} ELSE {c.actions[k] : k \in 1..Len(c.actions)}
    ELSE {}
\* Both flags are on the command line, before any '--'
BothGiven ==
    {"json", "short"} \subseteq
        UNION {FlagsOfTuple(parse_optional(argv[i])) :
                  i \in 1..(Separator(argv) - 1)}

\* C7 (as claimed): whenever both flags are given the process, unless killed
\* from outside before, ends with code 1 after the one message on the error
\* stream, the collector is never called and nothing is written to standard
\* output.
C7_Original ==
    BothGiven =>
        /\ calls = 0
        /\ raw = None
        /\ cpu_data = None
        /\ stdout = <<>>
        /\ buf = <<>>
        /\ pc \in {"parse", "exited"}
        /\ (pc = "exited" /\ ~KilledBySigint) =>
              /\ exit_code = Some(1)
              /\ stderr = <<ConflictMsg>>

\* C7 (amended): with both flags given the collector is never called.  When
\* the parser accepts the command line, both flags are set, nothing is written
\* to standard output and the process, unless killed from outside before, ends
\* with code 1 after the one message on the error stream.  When the parser
\* ends the process itself, the message of the conflict is not written: after
\* the help, printed on standard output, the code is 0 (120 when standard
\* output is closed), and after an error of the parser, with the usage and the
\* error on the error stream and nothing on standard output, the code is 2.
C7_FlagConflict ==
    BothGiven =>
        /\ calls = 0
        /\ raw = None
        /\ cpu_data = None
        /\ pc \in {"parse", "exited"}
        /\ args # None =>
              /\ args[1].json /\ args[1].short
              /\ parse_args(argv).kind = "ok"
              /\ pc = "exited"
        /\ parse_args(argv).kind = "ok" =>
              /\ stdout = <<>>
              /\ buf = <<>>
              /\ (pc = "exited" /\ ~KilledBySigint) =>
                    /\ args # None
                    /\ exit_code = Some(1)
                    /\ stderr = <<ConflictMsg>>
        /\ (parse_args(argv).kind = "help" /\ pc = "exited" /\ ~KilledBySigint) =>
              /\ stderr \in {<<>>, <<<<"Exception ignored in: <stdout>",
                                       "BrokenPipeError">>>>}
              /\ \/ exit_code = Some(0) /\ stdout = <<Help>>
                 \/ exit_code = Some(120) /\ ~stdout_ok /\ buf = <<Help>>
        /\ (parse_args(argv).kind = "error" /\ pc = "exited" /\ ~KilledBySigint) =>
              /\ exit_code = Some(2)
              /\ stdout = <<>>
              /\ buf = <<>>
              /\ stderr = <<Usage, parse_args(argv).msg>>

\* C7's case: the parser accepted a command line with both flags, one of them
\* in a cluster of one-letter options, and the run has ended on the conflict
C7_Witness ==
    /\ BothGiven
    /\ \E i \in 1..Len(argv) : argv[i] = <<45, 115, 115>>
    /\ args # None
    /\ args[1].json /\ args[1].short
    /\ pc = "exited"
    /\ exit_code = Some(1)
    /\ stderr = <<ConflictMsg>>

\* C10 (as claimed): for a snapshot with error set the dashboard renderer
\* writes the error message, the sensor keys and a rule, and neither the
\* overall block nor the core table.
C10_ErrorSnapshotShowsOnlyError ==
    (/\ DashboardMode
     /\ pc = "sleep"
     /\ caught = None
     /\ HasError(cpu_data[1])) =>
        /\ "error" \in Tags(stdout)
        /\ Tags(stdout) \cap {"overall_header", "overall_values", "col_header",
                              "row"} = {}

====
